---- MODULE Spec2Model ----
(***************************************************************************)
(* State-machine model of the two device drivers of the repository:        *)
(*   - OakDCamera   (src/src/lerobot/cameras/oakd/camera_oakd.py)           *)
(*   - Ned2Follower (src/src/lerobot/robots/ned2_follower/ned2_follower.py) *)
(* The camera is modelled with its background reader thread and a single   *)
(* caller thread; every blocking point of the code is a separate step.     *)
(***************************************************************************)
EXTENDS Integers, Sequences, FiniteSets, TLC

\* ---------------------------------------------------------------- bounds
\* number of dai.Device(...) objects the caller may create
MaxConnects == 2
\* number of frames one device delivers before it stalls
MaxFrames == 6
\* largest timeout (in clock ticks) passed to async_read
MaxTimeout == 1
\* number of NiryoRobot(...) handles one Ned2Follower may create
MaxRobotConns == 2
\* joint positions range over -MaxPos .. MaxPos (scaled radians)
MaxPos == 2

\* ------------------------------------------------------ program constants
\* getOutputQueue(name="preview", maxSize=4, blocking=False)
QueueMaxSize == 4
\* for _ in range(5): self.read()
WarmupReads == 5

\* ----------------------------------------------------------------- values
None == "None"
\* a frame is <<connection, sequence number>>; NoFrame stands for Python's None
NoFrame == <<0, 0>>
\* device / queue fields hold the number of the connection, NoDevice for None
NoDevice == 0

VARIABLES
    \* OakDCamera fields
    pipeline, device, queue, thread, stop_event, frame_lock, latest_frame,
    new_frame_event,
    \* vendor side of the camera
    epoch, devQueue, produced,
    \* background reader thread (_read_loop): position and locals
    tPc, tFrame, tQueue,
    \* caller thread of the camera: position, locals, last call and its outcome
    cPc, cLeft, cRemaining, cFrame, op, outcome, result, sdkCalls,
    \* history of the mailbox
    lastPub, prevAsync,
    \* Ned2Follower: config, fields, its cameras, the vendor robot
    max_relative_target, calibrate_on_connect, robot, rcams, openConns, nextConn,
    joints,
    \* caller of the robot: the action it passes, last call and what it did
    action, rOp, rOutcome, moved, returned, presentRead, rSdk

camFields == <<pipeline, device, queue, thread, stop_event, frame_lock,
               latest_frame, new_frame_event>>
camVendor == <<epoch, devQueue, produced>>
camThread == <<tPc, tFrame, tQueue>>
camCaller == <<cPc, cLeft, cRemaining, cFrame, op, outcome, result, sdkCalls>>
camHist == <<lastPub, prevAsync>>
camVars == <<camFields, camVendor, camThread, camCaller, camHist>>

robConfig == <<max_relative_target, calibrate_on_connect>>
robFields == <<robot, rcams>>
robVendor == <<openConns, nextConn, joints>>
robCaller == <<action, rOp, rOutcome, moved, returned, presentRead, rSdk>>
robVars == <<robConfig, robFields, robVendor, robCaller>>

vars == <<camVars, robVars>>

\* ------------------------------------------------------------ OakDCamera

\* faulty variant: connectedness judged by the thread field instead of the device
is_connected_by_thread == thread # None
\* @property is_connected
is_connected == device # NoDevice

\* faulty variant: a publication is dropped while an unread frame is in the mailbox
PublishKeepUnread(old, frame) == IF new_frame_event THEN old ELSE frame
\* self.latest_frame = frame
Publish(old, frame) == frame

\* the device's output queue after a new frame arrives: non-blocking queue of
\* maxSize entries, the oldest entry is dropped when it is full
QueuePush(q, f) ==
    IF Len(q) >= QueueMaxSize THEN Append(Tail(q), f) ELSE Append(q, f)

\* __init__
CamInit ==
    /\ pipeline = None /\ device = NoDevice /\ queue = NoDevice
    /\ thread = None /\ stop_event = None /\ frame_lock = "free"
    /\ latest_frame = NoFrame /\ new_frame_event = FALSE
    /\ epoch = 0 /\ devQueue = <<>> /\ produced = 0
    /\ tPc = "done" /\ tFrame = NoFrame /\ tQueue = NoDevice
    /\ cPc = "idle" /\ cLeft = 0 /\ cRemaining = 0
    /\ cFrame = NoFrame /\ op = "none" /\ outcome = "none" /\ result = NoFrame
    /\ sdkCalls = {}
    /\ lastPub = NoFrame /\ prevAsync = NoFrame

\* _start_read_thread
StartReadThread ==
    IF thread = "alive"
    THEN UNCHANGED <<thread, stop_event, camThread>>
    ELSE /\ stop_event' = "clear"
         /\ thread' = "alive"
         /\ tPc' = "loop" /\ tFrame' = NoFrame /\ tQueue' = NoDevice

\* the vendor device delivers a frame into the output queue
DeviceProduce ==
    /\ device # NoDevice
    /\ produced < MaxFrames
    /\ produced' = produced + 1
    /\ devQueue' = QueuePush(devQueue, <<device, produced + 1>>)
    /\ UNCHANGED <<camFields, epoch, camThread, camCaller, camHist>>
    /\ UNCHANGED robVars

\* connect() on a connected camera
ConnectAlready ==
    /\ cPc = "idle"
    /\ is_connected
    /\ op' = "connect" /\ outcome' = "DeviceAlreadyConnectedError"
    /\ result' = NoFrame /\ sdkCalls' = {}
    /\ UNCHANGED <<camFields, camVendor, camThread, cPc, cLeft, cRemaining, cFrame, camHist>>
    /\ UNCHANGED robVars

\* connect(): the pipeline is built and dai.Device(pipeline) raises
ConnectFail ==
    /\ cPc = "idle"
    /\ ~is_connected
    /\ pipeline' = "Pipeline"
    /\ op' = "connect" /\ outcome' = "SdkError"
    /\ result' = NoFrame /\ sdkCalls' = {"Pipeline", "Device"}
    /\ UNCHANGED <<device, queue, thread, stop_event, frame_lock, latest_frame,
                   new_frame_event, camVendor, camThread, cPc, cLeft, cRemaining, cFrame, camHist>>
    /\ UNCHANGED robVars

\* connect(warmup): pipeline, device and output queue are created
ConnectOpen(warmup) ==
    /\ cPc = "idle"
    /\ ~is_connected
    /\ epoch < MaxConnects
    /\ epoch' = epoch + 1
    /\ pipeline' = "Pipeline"
    /\ device' = epoch + 1
    /\ queue' = epoch + 1
    /\ devQueue' = <<>> /\ produced' = 0
    /\ cPc' = "warmup"
    /\ cLeft' = IF warmup THEN WarmupReads ELSE 0
    /\ op' = "connect" /\ outcome' = "pending"
    /\ result' = NoFrame /\ sdkCalls' = {"Pipeline", "Device", "getOutputQueue"}
    /\ UNCHANGED <<thread, stop_event, frame_lock, latest_frame, new_frame_event,
                   camThread, cRemaining, cFrame, camHist>>
    /\ UNCHANGED robVars

\* connect(): one warmup read(), blocking in queue.get()
ConnectWarmRead ==
    /\ cPc = "warmup"
    /\ cLeft > 0
    /\ devQueue # <<>>
    /\ devQueue' = Tail(devQueue)
    /\ cLeft' = cLeft - 1
    /\ sdkCalls' = sdkCalls \cup {"get"}
    /\ UNCHANGED <<camFields, epoch, produced, camThread, cPc, cRemaining,
                   cFrame, op, outcome, result, camHist>>
    /\ UNCHANGED robVars

\* connect(): _start_read_thread(), sleep, return
ConnectStart ==
    /\ cPc = "warmup"
    /\ cLeft = 0
    /\ StartReadThread
    /\ cPc' = "idle"
    /\ outcome' = "ok"
    /\ UNCHANGED <<pipeline, device, queue, frame_lock, latest_frame,
                   new_frame_event, camVendor, cLeft, cRemaining, cFrame,
                   op, result, sdkCalls, camHist>>
    /\ UNCHANGED robVars

\* read() by the caller on a camera that is not connected
ReadNotConnected ==
    /\ cPc = "idle"
    /\ ~is_connected
    /\ op' = "read" /\ outcome' = "DeviceNotConnectedError"
    /\ result' = NoFrame /\ sdkCalls' = {}
    /\ UNCHANGED <<camFields, camVendor, camThread, cPc, cLeft, cRemaining, cFrame, camHist>>
    /\ UNCHANGED robVars

\* read() by the caller: queue.get() returns the oldest queued frame
ReadOk ==
    /\ cPc = "idle"
    /\ is_connected
    /\ devQueue # <<>>
    /\ devQueue' = Tail(devQueue)
    /\ op' = "read" /\ outcome' = "frame"
    /\ result' = Head(devQueue) /\ sdkCalls' = {"get"}
    /\ UNCHANGED <<camFields, epoch, produced, camThread, cPc, cLeft, cRemaining, cFrame, camHist>>
    /\ UNCHANGED robVars

\* ------------------------------------------------------------ async_read

\* async_read() on a camera that is not connected
AsyncReadNotConnected ==
    /\ cPc = "idle"
    /\ ~is_connected
    /\ op' = "async_read" /\ outcome' = "DeviceNotConnectedError"
    /\ result' = NoFrame /\ sdkCalls' = {}
    /\ UNCHANGED <<camFields, camVendor, camThread, cPc, cLeft, cRemaining, cFrame, camHist>>
    /\ UNCHANGED robVars

\* async_read(timeout_ms): the reader thread is started when it is not alive,
\* then the caller waits on new_frame_event
AsyncReadBegin(timeout) ==
    /\ cPc = "idle"
    /\ is_connected
    /\ StartReadThread
    /\ cPc' = "ar_wait"
    /\ cRemaining' = timeout
    /\ op' = "async_read" /\ outcome' = "pending"
    /\ result' = NoFrame /\ sdkCalls' = {}
    /\ prevAsync' = IF op = "async_read" /\ outcome = "frame" THEN result ELSE NoFrame
    /\ UNCHANGED <<pipeline, device, queue, frame_lock, latest_frame,
                   new_frame_event, camVendor, cLeft, cFrame, lastPub>>
    /\ UNCHANGED robVars

\* time passes while the caller waits on the event
Tick ==
    /\ cPc = "ar_wait"
    /\ ~new_frame_event
    /\ cRemaining > 0
    /\ cRemaining' = cRemaining - 1
    /\ UNCHANGED <<camFields, camVendor, camThread, cPc, cLeft, cFrame,
                   op, outcome, result, sdkCalls, camHist>>
    /\ UNCHANGED robVars

\* faulty variant: the wait gives up at the deadline whatever the event's flag
WaitTimesOutAtDeadline == cRemaining = 0
\* Event.wait(timeout) returns False: the flag is not set at the deadline
WaitTimesOut == ~new_frame_event /\ cRemaining = 0

\* new_frame_event.wait(...) returned True
AsyncReadWaitOk ==
    /\ cPc = "ar_wait"
    /\ new_frame_event
    /\ cPc' = "ar_acquire"
    /\ cRemaining' = 0
    /\ UNCHANGED <<camFields, camVendor, camThread, cLeft, cFrame, op, outcome,
                   result, sdkCalls, camHist>>
    /\ UNCHANGED robVars

\* raise TimeoutError
AsyncReadTimeout ==
    /\ cPc = "ar_wait"
    /\ WaitTimesOut
    /\ cPc' = "idle"
    /\ outcome' = "TimeoutError"
    /\ cRemaining' = 0
    /\ UNCHANGED <<camFields, camVendor, camThread, cLeft, cFrame, op, result,
                   sdkCalls, camHist>>
    /\ UNCHANGED robVars

\* with self.frame_lock:
AsyncReadAcquire ==
    /\ cPc = "ar_acquire"
    /\ frame_lock = "free"
    /\ frame_lock' = "caller"
    /\ cPc' = "ar_read"
    /\ UNCHANGED <<pipeline, device, queue, thread, stop_event, latest_frame,
                   new_frame_event, camVendor, camThread, cLeft, cRemaining, cFrame, op, outcome, result, sdkCalls, camHist>>
    /\ UNCHANGED robVars

\* frame = self.latest_frame
AsyncReadTake ==
    /\ cPc = "ar_read"
    /\ cFrame' = latest_frame
    /\ cPc' = "ar_clear"
    /\ UNCHANGED <<camFields, camVendor, camThread, cLeft, cRemaining,
                   op, outcome, result, sdkCalls, camHist>>
    /\ UNCHANGED robVars

\* self.new_frame_event.clear(), the lock is released, return frame
AsyncReadClear ==
    /\ cPc = "ar_clear"
    /\ new_frame_event' = FALSE
    /\ frame_lock' = "free"
    /\ cPc' = "idle"
    /\ outcome' = "frame" /\ result' = cFrame
    /\ cFrame' = NoFrame
    /\ UNCHANGED <<pipeline, device, queue, thread, stop_event, latest_frame,
                   camVendor, camThread, cLeft, cRemaining, op, sdkCalls,
                   camHist>>
    /\ UNCHANGED robVars

\* ------------------------------------------------------------ disconnect

\* disconnect() on a camera that is not connected
DisconnectNotConnected ==
    /\ cPc = "idle"
    /\ ~is_connected
    /\ op' = "disconnect" /\ outcome' = "DeviceNotConnectedError"
    /\ result' = NoFrame /\ sdkCalls' = {}
    /\ UNCHANGED <<camFields, camVendor, camThread, cPc, cLeft, cRemaining, cFrame, camHist>>
    /\ UNCHANGED robVars

\* disconnect(): _stop_read_thread() sets the stop event and goes to join
DisconnectStop ==
    /\ cPc = "idle"
    /\ is_connected
    /\ stop_event' = IF stop_event = None THEN None ELSE "set"
    /\ cPc' = IF thread = "alive" THEN "dc_join" ELSE "dc_close"
    /\ op' = "disconnect" /\ outcome' = "pending"
    /\ result' = NoFrame /\ sdkCalls' = {}
    /\ UNCHANGED <<pipeline, device, queue, thread, frame_lock, latest_frame,
                   new_frame_event, camVendor, camThread, cLeft, cRemaining, cFrame, camHist>>
    /\ UNCHANGED robVars

\* self.thread.join(timeout=2.0) returns because the thread has ended
DisconnectJoined ==
    /\ cPc = "dc_join"
    /\ thread = "dead"
    /\ cPc' = "dc_close"
    /\ UNCHANGED <<camFields, camVendor, camThread, cLeft, cRemaining,
                   cFrame, op, outcome, result, sdkCalls, camHist>>
    /\ UNCHANGED robVars

\* self.thread.join(timeout=2.0) expires: the thread is still blocked in
\* queue.get() on a device that delivered nothing meanwhile
DisconnectJoinTimeout ==
    /\ cPc = "dc_join"
    /\ thread = "alive"
    /\ tPc = "blocked" /\ devQueue = <<>>
    /\ cPc' = "dc_close"
    /\ UNCHANGED <<camFields, camVendor, camThread, cLeft, cRemaining,
                   cFrame, op, outcome, result, sdkCalls, camHist>>
    /\ UNCHANGED robVars

\* self.device.close(); device, queue and pipeline are set to None; return
DisconnectClose ==
    /\ cPc = "dc_close"
    /\ device' = NoDevice /\ queue' = NoDevice /\ pipeline' = None
    /\ devQueue' = <<>>
    /\ cPc' = "idle"
    /\ outcome' = "ok" /\ sdkCalls' = {"close"}
    /\ UNCHANGED <<thread, stop_event, frame_lock, latest_frame, new_frame_event,
                   epoch, produced, camThread, cLeft, cRemaining, cFrame,
                   op, result, camHist>>
    /\ UNCHANGED robVars

\* ------------------------------------------------------------ _read_loop

\* while not self.stop_event.is_set()
TLoop ==
    /\ thread = "alive" /\ tPc = "loop"
    /\ IF stop_event = "set"
       THEN thread' = "dead" /\ tPc' = "done"
       ELSE thread' = thread /\ tPc' = "check"
    /\ UNCHANGED <<pipeline, device, queue, stop_event, frame_lock, latest_frame,
                   new_frame_event, camVendor, tFrame, tQueue, camCaller, camHist>>
    /\ UNCHANGED robVars

\* read(): if not self.is_connected: raise DeviceNotConnectedError -> break
TCheck ==
    /\ thread = "alive" /\ tPc = "check"
    /\ IF is_connected
       THEN thread' = thread /\ tPc' = "get"
       ELSE thread' = "dead" /\ tPc' = "done"
    /\ UNCHANGED <<pipeline, device, queue, stop_event, frame_lock, latest_frame,
                   new_frame_event, camVendor, tFrame, tQueue, camCaller, camHist>>
    /\ UNCHANGED robVars

\* read(): self.queue.get() is entered; on None the AttributeError is logged
TGetEnter ==
    /\ thread = "alive" /\ tPc = "get"
    /\ IF queue = NoDevice
       THEN tPc' = "loop" /\ tQueue' = NoDevice
       ELSE tPc' = "blocked" /\ tQueue' = queue
    /\ UNCHANGED <<camFields, camVendor, tFrame, camCaller, camHist>>
    /\ UNCHANGED robVars

\* read(): queue.get() returns the oldest queued frame
TGetReturn ==
    /\ thread = "alive" /\ tPc = "blocked"
    /\ tQueue = device
    /\ devQueue # <<>>
    /\ tFrame' = Head(devQueue)
    /\ devQueue' = Tail(devQueue)
    /\ tPc' = "acquire" /\ tQueue' = NoDevice
    /\ UNCHANGED <<camFields, epoch, produced, camCaller, camHist>>
    /\ UNCHANGED robVars

\* read(): queue.get() raises because its device was closed; logged, loop again
TGetClosed ==
    /\ thread = "alive" /\ tPc = "blocked"
    /\ tQueue # device
    /\ tPc' = "loop" /\ tQueue' = NoDevice
    /\ UNCHANGED <<camFields, camVendor, tFrame, camCaller, camHist>>
    /\ UNCHANGED robVars

\* with self.frame_lock:
TAcquire ==
    /\ thread = "alive" /\ tPc = "acquire"
    /\ frame_lock = "free"
    /\ frame_lock' = "reader"
    /\ tPc' = "write"
    /\ UNCHANGED <<pipeline, device, queue, thread, stop_event, latest_frame,
                   new_frame_event, camVendor, tFrame, tQueue, camCaller, camHist>>
    /\ UNCHANGED robVars

\* self.latest_frame = frame, and the lock is released
TWrite ==
    /\ thread = "alive" /\ tPc = "write"
    /\ latest_frame' = Publish(latest_frame, tFrame)
    /\ lastPub' = tFrame
    /\ frame_lock' = "free"
    /\ tPc' = "set"
    /\ UNCHANGED <<pipeline, device, queue, thread, stop_event, new_frame_event,
                   camVendor, tFrame, tQueue, camCaller, prevAsync>>
    /\ UNCHANGED robVars

\* self.new_frame_event.set()
TSet ==
    /\ thread = "alive" /\ tPc = "set"
    /\ new_frame_event' = TRUE
    /\ tPc' = "loop" /\ tFrame' = NoFrame
    /\ UNCHANGED <<pipeline, device, queue, thread, stop_event, frame_lock,
                   latest_frame, camVendor, tQueue, camCaller, camHist>>
    /\ UNCHANGED robVars

\* ---------------------------------------------------------- Ned2Follower

\* self.robot = None
NoRobot == 0
\* max_relative_target: float | dict | None = None
NoTarget == -1
\* the six joints of _motors_ft, in the order send_action passes them
JointNames == <<"joint_1", "joint_2", "joint_3", "joint_4", "joint_5", "joint_6">>
Joints == 1..Len(JointNames)
\* the cameras of the config, in connection order
CamNames == <<"top", "wrist">>
Cams == 1..Len(CamNames)
Vals == (0 - MaxPos)..MaxPos
\* config.joint_limits, (min, max) per joint in milliradians, in joint order
joint_limits ==
    <<<<-2949, 2949>>, <<-1830, 610>>, <<-1340, 1570>>,
      <<-2089, 2089>>, <<-1919, 1922>>, <<-2530, 2530>>>>
\* a joint position (in radians) in the unit of joint_limits
MilliRad(v) == v * 1000
\* a dict key "<base><suffix>" is the pair <<base, suffix>>
PosKey(base) == <<base, ".pos">>
\* key.endswith(".pos")
EndsWithPos(key) == key[2] = ".pos"
\* key.removesuffix(".pos")
RemoveSuffixPos(key) == key[1]
EmptyDict == [k \in {} |-> 0]
NoMove == <<>>

\* faulty variant: connectedness judged by the robot handle alone
Ned2IsConnectedRobotOnly == robot # NoRobot
\* @property is_connected
Ned2IsConnected == robot # NoRobot /\ \A c \in Cams : rcams[c]

\* robot poses: home, or one joint displaced
Poses ==
    {[j \in Joints |-> 0]} \cup
    {[j \in Joints |-> IF j = k THEN v ELSE 0] : k \in Joints, v \in Vals}
\* the observation dict of a pose, as get_observation builds it
PoseDict(pose) ==
    [key \in {PosKey(JointNames[j]) : j \in Joints} |->
        pose[CHOOSE j \in Joints : PosKey(JointNames[j]) = key]]
\* a dict without one key
Without(d, key) == [k \in DOMAIN d \ {key} |-> d[k]]
\* a dict with one key set
With(d, key, v) == [k \in DOMAIN d \cup {key} |-> IF k = key THEN v ELSE d[k]]
ExtraKeys == {<<"gripper", ".pos">>, <<"joint_1", ".vel">>}
\* the action dicts a caller derives from an observation: the observation
\* itself, with at most one joint given another target or left out, and at most
\* one further key
ActionsFrom(pose) ==
    LET base == PoseDict(pose)
        edited == {base}
                  \cup {With(base, PosKey(JointNames[j]), v) : j \in Joints, v \in Vals}
                  \cup {Without(base, PosKey(JointNames[j])) : j \in Joints}
    IN  edited \cup {With(base, x, 1) : x \in ExtraKeys}

\* __init__, for every config and every action the caller may hold
RobInit ==
    /\ max_relative_target \in {NoTarget, 1}
    /\ calibrate_on_connect \in BOOLEAN
    /\ robot = NoRobot
    /\ rcams = [c \in Cams |-> FALSE]
    /\ openConns = {} /\ nextConn = 0
    /\ joints \in Poses
    /\ action \in ActionsFrom(joints)
    /\ rOp = "none" /\ rOutcome = "none"
    /\ moved = NoMove /\ returned = EmptyDict
    /\ presentRead = [j \in Joints |-> 0]
    /\ rSdk = {}

Clamp(x, lo, hi) == IF x < lo THEN lo ELSE IF x > hi THEN hi ELSE x
\* lerobot.robots.utils.ensure_safe_goal_position
ensure_safe_goal_position(goal_present_pos, max_rel) ==
    [key \in DOMAIN goal_present_pos |->
        goal_present_pos[key][2]
        + Clamp(goal_present_pos[key][1] - goal_present_pos[key][2],
                0 - max_rel, max_rel)]

\* goal_pos = {key.removesuffix(".pos"): val for ... if key.endswith(".pos")}
GoalPos(act) ==
    [base \in {RemoveSuffixPos(key) : key \in {k \in DOMAIN act : EndsWithPos(k)}}
        |-> act[PosKey(base)]]
\* present_pos = {f"joint_{i+1}": present_joints[i] for i in range(6)}
PresentPos(pose) ==
    [base \in {JointNames[j] : j \in Joints} |->
        pose[CHOOSE j \in Joints : JointNames[j] = base]]
\* goal_pos.get(name, 0)
DictGet(d, key, default) == IF key \in DOMAIN d THEN d[key] ELSE default
\* the six arguments of move_joints
MoveArgs(goal_pos) == [j \in Joints |-> DictGet(goal_pos, JointNames[j], 0)]
\* {f"{motor}.pos": val for motor, val in goal_pos.items()}
ReturnedDict(goal_pos) ==
    [key \in {PosKey(base) : base \in DOMAIN goal_pos} |-> goal_pos[RemoveSuffixPos(key)]]

\* an error raised by a lifecycle check: nothing but the call record changes
RobRaise(name, error) ==
    /\ rOp' = name /\ rOutcome' = error
    /\ moved' = NoMove /\ returned' = EmptyDict /\ rSdk' = {}
    /\ UNCHANGED <<robConfig, robFields, robVendor, action, presentRead>>

\* connect() on a connected robot
Ned2ConnectAlready ==
    /\ Ned2IsConnected
    /\ RobRaise("connect", "DeviceAlreadyConnectedError")
    /\ UNCHANGED camVars

\* connect(): NiryoRobot(ip) raises, nothing is assigned
Ned2ConnectNoRobot ==
    /\ ~Ned2IsConnected
    /\ rOp' = "connect" /\ rOutcome' = "SdkError"
    /\ moved' = NoMove /\ returned' = EmptyDict /\ rSdk' = {"NiryoRobot"}
    /\ UNCHANGED <<robConfig, robFields, robVendor, action, presentRead>>
    /\ UNCHANGED camVars

\* the first camera that is connected already (one past the last when none is)
FirstConnectedCam ==
    IF \E c \in Cams : rcams[c]
    THEN CHOOSE c \in Cams : rcams[c] /\ \A d \in Cams : rcams[d] => c <= d
    ELSE Len(CamNames) + 1

\* connect(calibrate): the robot handle is created, then the cameras are
\* connected in order; cam.connect() raises at camera `stop` (on an already
\* connected camera always, otherwise when the vendor SDK fails), and
\* stop = Len(CamNames) + 1 is the run in which no camera raises
Ned2Connect(calibrate, stop) ==
    /\ ~Ned2IsConnected
    /\ nextConn < MaxRobotConns
    /\ stop <= FirstConnectedCam
    /\ nextConn' = nextConn + 1
    /\ robot' = nextConn + 1
    /\ openConns' = openConns \cup {nextConn + 1}
    /\ rcams' = [c \in Cams |-> rcams[c] \/ c < stop]
    /\ rOp' = "connect"
    /\ rOutcome' = IF stop > Len(CamNames) THEN "ok"
                   ELSE IF stop = FirstConnectedCam THEN "DeviceAlreadyConnectedError"
                   ELSE "SdkError"
    /\ rSdk' = {"NiryoRobot"}
               \cup (IF calibrate /\ calibrate_on_connect
                     THEN {"need_calibration", "calibrate_auto"} ELSE {})
               \cup (IF stop > Len(CamNames) THEN {"set_learning_mode"} ELSE {})
    /\ moved' = NoMove /\ returned' = EmptyDict
    /\ UNCHANGED <<robConfig, joints, action, presentRead>>
    /\ UNCHANGED camVars

\* get_observation() on a robot that is not connected
Ned2ObserveNotConnected ==
    /\ ~Ned2IsConnected
    /\ RobRaise("get_observation", "DeviceNotConnectedError")
    /\ UNCHANGED camVars

\* get_observation(): the joints are read, every camera is read
Ned2Observe ==
    /\ Ned2IsConnected
    /\ rOp' = "get_observation" /\ rOutcome' = "ok"
    /\ returned' = PoseDict(joints)
    /\ moved' = NoMove /\ rSdk' = {"joints"}
    /\ UNCHANGED <<robConfig, robFields, robVendor, action, presentRead>>
    /\ UNCHANGED camVars

\* send_action() on a robot that is not connected
Ned2SendNotConnected ==
    /\ ~Ned2IsConnected
    /\ RobRaise("send_action", "DeviceNotConnectedError")
    /\ UNCHANGED camVars

\* send_action(action) with a relative target set and a ".pos" key that is no
\* joint: present_pos[key] raises KeyError before anything is sent
Ned2SendKeyError ==
    /\ Ned2IsConnected
    /\ max_relative_target # NoTarget
    /\ ~(DOMAIN GoalPos(action) \subseteq DOMAIN PresentPos(joints))
    /\ rOp' = "send_action" /\ rOutcome' = "KeyError"
    /\ presentRead' = joints
    /\ moved' = NoMove /\ returned' = EmptyDict /\ rSdk' = {"joints"}
    /\ UNCHANGED <<robConfig, robFields, robVendor, action>>
    /\ UNCHANGED camVars

\* send_action(action): goal extraction, optional clamping, one move_joints
Ned2Send ==
    /\ Ned2IsConnected
    /\ max_relative_target # NoTarget
          => DOMAIN GoalPos(action) \subseteq DOMAIN PresentPos(joints)
    /\ LET goal_pos ==
               IF max_relative_target # NoTarget
               THEN ensure_safe_goal_position(
                        [key \in DOMAIN GoalPos(action) |->
                            <<GoalPos(action)[key], PresentPos(joints)[key]>>],
                        max_relative_target)
               ELSE GoalPos(action)
       IN  /\ moved' = <<MoveArgs(goal_pos)>>
           /\ joints' = MoveArgs(goal_pos)
           /\ returned' = ReturnedDict(goal_pos)
    /\ presentRead' = IF max_relative_target # NoTarget THEN joints ELSE presentRead
    /\ rSdk' = {"move_joints"}
               \cup (IF max_relative_target # NoTarget THEN {"joints"} ELSE {})
    /\ rOp' = "send_action" /\ rOutcome' = "ok"
    /\ UNCHANGED <<robConfig, robFields, openConns, nextConn, action>>
    /\ UNCHANGED camVars

\* disconnect() on a robot that is not connected
Ned2DisconnectNotConnected ==
    /\ ~Ned2IsConnected
    /\ RobRaise("disconnect", "DeviceNotConnectedError")
    /\ UNCHANGED camVars

\* disconnect(): close_connection(), robot = None, every camera disconnected
Ned2Disconnect ==
    /\ Ned2IsConnected
    /\ openConns' = openConns \ {robot}
    /\ robot' = NoRobot
    /\ rcams' = [c \in Cams |-> FALSE]
    /\ rOp' = "disconnect" /\ rOutcome' = "ok"
    /\ moved' = NoMove /\ returned' = EmptyDict /\ rSdk' = {"close_connection"}
    /\ UNCHANGED <<robConfig, nextConn, joints, action, presentRead>>
    /\ UNCHANGED camVars

RobNext ==
    \/ Ned2ConnectAlready
    \/ Ned2ConnectNoRobot
    \/ \E cal \in BOOLEAN, stop \in 1..(Len(CamNames) + 1) : Ned2Connect(cal, stop)
    \/ Ned2ObserveNotConnected
    \/ Ned2Observe
    \/ Ned2SendNotConnected
    \/ Ned2SendKeyError
    \/ Ned2Send
    \/ Ned2DisconnectNotConnected
    \/ Ned2Disconnect

CamNext ==
    \/ DeviceProduce
    \/ ConnectAlready
    \/ ConnectFail
    \/ \E w \in BOOLEAN : ConnectOpen(w)
    \/ ConnectWarmRead
    \/ ConnectStart
    \/ ReadNotConnected
    \/ ReadOk
    \/ AsyncReadNotConnected
    \/ \E t \in 0..MaxTimeout : AsyncReadBegin(t)
    \/ Tick
    \/ AsyncReadWaitOk \/ AsyncReadTimeout
    \/ AsyncReadAcquire \/ AsyncReadTake \/ AsyncReadClear
    \/ DisconnectNotConnected
    \/ DisconnectStop \/ DisconnectJoined \/ DisconnectJoinTimeout
    \/ DisconnectClose
    \/ TLoop \/ TCheck \/ TGetEnter \/ TGetReturn \/ TGetClosed
    \/ TAcquire \/ TWrite \/ TSet

\* a robot for which no caller of the robot is modelled: default config, home pose
RobIdle ==
    /\ RobInit
    /\ max_relative_target = NoTarget /\ calibrate_on_connect = FALSE
    /\ joints = [j \in Joints |-> 0]
    /\ action = PoseDict(joints)

\* after construction: a camera, and a robot nobody calls
InitCam == CamInit /\ RobIdle
\* after construction: a robot with any config, pose and action, and a camera
\* nobody calls
InitRob == CamInit /\ RobInit

\* the camera driver with its reader thread and one caller
CamSpec == InitCam /\ [][CamNext]_vars
\* the robot driver, its cameras reduced to their connection state, for every
\* config, starting pose and action
RobSpec == InitRob /\ [][RobNext]_vars

\* the steps of a caller inside async_read, with the clock of its wait
AsyncReadStep ==
    \/ Tick
    \/ AsyncReadWaitOk \/ AsyncReadTimeout
    \/ AsyncReadAcquire \/ AsyncReadTake \/ AsyncReadClear

\* CamSpec under the scheduling the code relies on: a caller inside async_read
\* that can take a step takes one (the wait's clock included), and the reader
\* thread leaves its critical section
CamFairSpec == CamSpec /\ WF_vars(AsyncReadStep) /\ WF_vars(TWrite)

\* ----------------------------------------------------------------- claims

\* C1: the mailbox holds exactly the frame the reader thread published last,
\* and the frame async_read reads while it holds frame_lock, and then returns,
\* is that frame: never None, never an older publication.
C1_AsyncReadReturnsLatest ==
    /\ latest_frame = lastPub
    /\ cPc = "ar_clear" => (cFrame # NoFrame /\ cFrame = lastPub)
    /\ (cPc = "idle" /\ op = "async_read" /\ outcome = "frame")
          => (result # NoFrame /\ result[1] <= lastPub[1]
              /\ (result[1] = lastPub[1] => result[2] <= lastPub[2]))

\* C1 witness: the caller holds the lock and has read a frame that overwrote
\* an unread publication (the event of the earlier one is still set, the
\* reader thread has not yet signalled the new one).
C1_Witness ==
    /\ cPc = "ar_clear" /\ tPc = "set"
    /\ cFrame = tFrame /\ cFrame = lastPub /\ cFrame[2] >= 2

AsyncPcs == {"ar_wait", "ar_acquire", "ar_read", "ar_clear"}

\* C2: async_read on a connected camera ends, with a frame or with
\* TimeoutError; the wait is left with TimeoutError exactly when the event is
\* not set at the deadline, and that outcome changes neither latest_frame nor
\* new_frame_event.
C2_AsyncReadOutcomes ==
    /\ []((cPc = "idle" /\ op = "async_read" /\ outcome # "DeviceNotConnectedError")
            => (outcome = "TimeoutError" \/ (outcome = "frame" /\ result # NoFrame)))
    /\ [][(cPc = "ar_wait" /\ cPc' # "ar_wait")
            => IF new_frame_event
               THEN cPc' = "ar_acquire"
               ELSE /\ cRemaining = 0
                    /\ cPc' = "idle" /\ outcome' = "TimeoutError"
                    /\ latest_frame' = latest_frame
                    /\ new_frame_event' = new_frame_event]_vars
    /\ (cPc \in AsyncPcs) ~> (cPc = "idle")

\* C2 witness: async_read raised TimeoutError on a connected camera whose
\* reader thread is blocked in the device queue read.
C2_Witness ==
    /\ cPc = "idle" /\ op = "async_read" /\ outcome = "TimeoutError"
    /\ device # NoDevice /\ tPc = "blocked" /\ devQueue = <<>>
    /\ ~new_frame_event

\* C3: connect on a connected camera raises DeviceAlreadyConnectedError; read,
\* async_read and disconnect on a camera without a device raise
\* DeviceNotConnectedError; these outcomes change no field of the camera and
\* make no vendor SDK call.
C3_LifecycleChecks ==
    [][(cPc = "idle" /\ <<cPc, op, outcome>>' # <<cPc, op, outcome>>)
          => /\ (op' = "connect" /\ device # NoDevice)
                   => /\ outcome' = "DeviceAlreadyConnectedError"
                      /\ UNCHANGED <<camFields, camVendor, camThread>>
                      /\ sdkCalls' = {}
             /\ (op' \in {"read", "async_read", "disconnect"} /\ device = NoDevice)
                   => /\ outcome' = "DeviceNotConnectedError"
                      /\ UNCHANGED <<camFields, camVendor, camThread>>
                      /\ sdkCalls' = {}]_vars

\* C3 witness: disconnect was refused on a camera that had been connected and
\* disconnected before (its thread object is still there).
C3_Witness ==
    /\ op = "disconnect" /\ outcome = "DeviceNotConnectedError"
    /\ device = NoDevice /\ thread # None

\* C7: two successive async_read calls never return the same publication
\* (prevAsync is the frame the call before returned, when that call was an
\* async_read that returned one).
C7_NoDuplicateDelivery ==
    (cPc = "idle" /\ op = "async_read" /\ outcome = "frame") => result # prevAsync

\* C8: between the return of disconnect and the next connect, latest_frame and
\* new_frame_event do not change.
C8_QuietAfterDisconnect ==
    [][(cPc = "idle" /\ epoch > 0 /\ device = NoDevice /\ pipeline = None)
          => (latest_frame' = latest_frame /\ new_frame_event' = new_frame_event)]_vars

\* C9: the frame async_read is about to return was read from the device of the
\* current connection.
C9_FrameOfCurrentConnection ==
    cPc = "ar_clear" => cFrame[1] = device

\* C4: the robot counts as connected exactly when its handle is set and every
\* camera is connected: otherwise get_observation, send_action and disconnect
\* raise DeviceNotConnectedError, in that state they do not and connect raises
\* DeviceAlreadyConnectedError; the error outcomes call no robot SDK function
\* and change neither the handle nor a camera.
C4_Ned2LifecycleChecks ==
    [][LET connected == robot # NoRobot /\ \A c \in Cams : rcams[c]
           guarded == {"get_observation", "send_action", "disconnect"}
           untouched == /\ rSdk' = {}
                        /\ UNCHANGED <<robot, rcams, openConns, nextConn, joints>>
       IN  /\ (rOp' \in guarded /\ ~connected)
                 => (rOutcome' = "DeviceNotConnectedError" /\ untouched)
           /\ (rOp' \in guarded /\ connected)
                 => rOutcome' # "DeviceNotConnectedError"
           /\ (rOp' = "connect" /\ connected)
                 => (rOutcome' = "DeviceAlreadyConnectedError" /\ untouched)]_vars

\* C4 witness: get_observation was refused although the robot handle is set,
\* because a camera is not connected.
C4_Witness ==
    /\ rOp = "get_observation" /\ rOutcome = "DeviceNotConnectedError"
    /\ robot # NoRobot /\ \E c \in Cams : ~rcams[c]

\* C5: without a relative target, send_action issues exactly one move_joints
\* whose arguments are the action's joint_1.pos .. joint_6.pos, and the dict it
\* returns holds for each of the six joints the value commanded.
C5_SendActionPassesThrough ==
    (rOp = "send_action" /\ rOutcome = "ok" /\ max_relative_target = NoTarget)
        => /\ Len(moved) = 1
           /\ \A j \in Joints :
                 /\ PosKey(JointNames[j]) \in DOMAIN action
                 /\ moved[1][j] = action[PosKey(JointNames[j])]
                 /\ PosKey(JointNames[j]) \in DOMAIN returned
                 /\ returned[PosKey(JointNames[j])] = moved[1][j]

Abs(x) == IF x < 0 THEN 0 - x ELSE x

\* C6: with a relative target set, every value passed to move_joints is within
\* the target of the joint's position read during the same call.
C6_SendActionClamped ==
    (rOp = "send_action" /\ rOutcome = "ok" /\ max_relative_target # NoTarget)
        => \A j \in Joints :
              Abs(moved[1][j] - presentRead[j]) <= max_relative_target

\* C10: at most one robot connection created by the instance is open, and after
\* a call to disconnect none is.
C10_OneRobotConnection ==
    /\ Cardinality(openConns) <= 1
    /\ rOp = "disconnect" => openConns = {}

\* C11: every value send_action passes to move_joints lies within the (min, max)
\* interval config.joint_limits declares for that joint, whatever the action
\* and whatever max_relative_target is.
C11_SendActionWithinJointLimits ==
    (rOp = "send_action" /\ rOutcome = "ok")
        => \A j \in Joints :
              /\ joint_limits[j][1] <= MilliRad(moved[1][j])
              /\ MilliRad(moved[1][j]) <= joint_limits[j][2]

====
